---- MODULE Spec2Model ----
(***************************************************************************)
(* Model of gcs_client/base.py: the lazily filled resource (Fillable), the *)
(* existence probe (GCS.exists), the paginated listing (Listable._list)    *)
(* and the decorators stacked on them (common.is_complete, common.retry).  *)
(***************************************************************************)
EXTENDS Integers, Sequences, FiniteSets, TLC

(***************************************************************************)
(* Bounds of the model.                                                    *)
(***************************************************************************)
\* largest number of keys in a representation returned by the fetch hook
MaxRepKeys == 2
\* depth at which the interpreter stops the re-entry of __getattr__
\* (sys.getrecursionlimit() in the program)
MaxDepth == 3

(***************************************************************************)
(* Python values.  Every value is a record of one shape, so that any two   *)
(* values can be compared: an atom, or a mapping given by its entries.     *)
(***************************************************************************)
Atom(a) == [tag |-> "atom", atom |-> a, ents |-> <<>>]
Mapping(e) == [tag |-> "dict", atom |-> "", ents |-> e]
Entry(k, v) == [k |-> k, v |-> v]

PyTrue == Atom("True")
PyFalse == Atom("False")
PyNone == Atom("None")

\* bool(v): None, False, 0, '' and the empty mapping are false
Truthy(v) ==
    IF v.tag = "atom" THEN v.atom \notin {"False", "None", "0", ""}
    ELSE Len(v.ents) > 0

\* a dict with no key
EmptyDict == [k \in {} |-> PyNone]

(***************************************************************************)
(* Fillable: the instance is its __dict__ (d) and its _gcs_attrs (g).      *)
(***************************************************************************)
Obj(d, g) == [d |-> d, g |-> g]

\* Fillable.__getattribute__: _gcs_attrs first, then the instance itself.
\* Bound(st, name) is whether the lookup succeeds without __getattr__.
Bound(st, name) == name \in DOMAIN st.g \/ name \in DOMAIN st.d

Getattribute(st, name) ==
    IF name \in DOMAIN st.g THEN st.g[name] ELSE st.d[name]

\* Fillable.__setattr__(name, value, force_gcs)
Setattr(st, name, value, force_gcs) ==
    IF force_gcs \/ name \in DOMAIN st.g
    THEN Obj(st.d,
             [k \in DOMAIN st.g \cup {name} |->
                 IF k = name THEN value ELSE st.g[k]])
    ELSE Obj([k \in DOMAIN st.d \cup {name} |->
                 IF k = name THEN value ELSE st.d[k]],
             st.g)

\* the merge transform of _fill_with_data: a mapping of exactly one entry
\* is replaced by that entry's value
FlattenDeep(v) ==
    IF v.tag = "dict" /\ Len(v.ents) = 1
    THEN IF v.ents[1].v.tag = "dict" /\ Len(v.ents[1].v.ents) = 1
         THEN v.ents[1].v.ents[1].v
         ELSE v.ents[1].v
    ELSE v

Flatten(v) ==
    IF v.tag = "dict" /\ Len(v.ents) = 1 THEN v.ents[1].v ELSE v

\* Fillable._fill_with_data: mark the data retrieved, then store every key
\* of the data in _gcs_attrs (the keys of a dict are distinct, so the order
\* of the loop does not matter)
FillKeepsAssigned(st, data) ==
    LET st1 == Setattr(st, "_data_retrieved", PyTrue, FALSE)
    IN  Obj(st1.d,
            [k \in DOMAIN st1.g \cup (DOMAIN data \ DOMAIN st1.d) |->
                IF k \in DOMAIN data THEN Flatten(data[k]) ELSE st1.g[k]])

FillWithData(st, data) ==
    LET st1 == Setattr(st, "_data_retrieved", PyTrue, FALSE)
    IN  Obj(st1.d,
            [k \in DOMAIN st1.g \cup DOMAIN data |->
                IF k \in DOMAIN data THEN Flatten(data[k]) ELSE st1.g[k]])

\* Fillable.__init__: nothing retrieved, existence unknown
NewFillable ==
    Obj([k \in {"_data_retrieved", "_exists"} |->
            IF k = "_data_retrieved" THEN PyFalse ELSE PyNone],
        EmptyDict)

\* Fillable.obj_from_data
ObjFromData(data) == FillWithData(NewFillable, data)

\* the test that opens __getattr__: nothing more to fetch
GetattrGuard(st) ==
    \/ Truthy(Getattribute(st, "_data_retrieved"))
    \/ Getattribute(st, "_exists") = PyFalse

\* what an attribute read gives back: a value or a raised exception
Returned(st, v, n) == [st |-> st, kind |-> "value", val |-> v, calls |-> n]
Raised(st, e, n) == [st |-> st, kind |-> e, val |-> PyNone, calls |-> n]

\* the state after _get_data raised NotFound
AbsentForgotten(st) == st

MarkAbsent(st) == Setattr(st, "_exists", PyFalse, FALSE)

\* the state after _get_data raised anything else
OtherError(st) == st

\* Fillable.__getattr__(name), entered when the lookup missed.  outs gives
\* the outcome of each call of _get_data in turn, data is what a successful
\* call returns, n counts the calls made so far.  The last line of the
\* method, getattr(self, name), enters __getattr__ again when the name is
\* still missing.
RECURSIVE Getattr(_, _, _, _, _)
Getattr(st, name, outs, data, n) ==
    IF GetattrGuard(st) THEN Raised(st, "AttributeError", n)
    ELSE IF n >= MaxDepth THEN Raised(st, "RecursionError", n)
    ELSE IF outs[n + 1] = "NotFound"
         THEN Raised(MarkAbsent(st), "AttributeError", n + 1)
    ELSE IF outs[n + 1] # "ok"
         THEN Raised(OtherError(st), outs[n + 1], n + 1)
    ELSE LET st2 == FillWithData(Setattr(st, "_exists", PyTrue, FALSE), data)
         IN  IF Bound(st2, name)
             THEN Returned(st2, Getattribute(st2, name), n + 1)
             ELSE Getattr(st2, name, outs, data, n + 1)

\* an attribute read, getattr(fill, name)
ReadAttr(st, name, outs, data) ==
    IF Bound(st, name) THEN Returned(st, Getattribute(st, name), 0)
    ELSE Getattr(st, name, outs, data, 0)

(***************************************************************************)
(* The environment of a Fillable: what the service holds and what the      *)
(* fetch hook can do.                                                      *)
(***************************************************************************)
\* the keys a representation may carry; two of them coincide with the
\* names under which the instance keeps its own bookkeeping
RepKeys == {"name", "size", "_data_retrieved", "_exists"}

RepValues ==
    { Atom("v1"), PyFalse, Mapping(<<>>),
      Mapping(<<Entry("precise", Atom("v2"))>>),
      Mapping(<<Entry("a", Atom("v1")), Entry("b", Atom("v2"))>>),
      Mapping(<<Entry("outer", Mapping(<<Entry("precise", Atom("v2"))>>))>>) }

Representations ==
    UNION { [ks -> RepValues] :
              ks \in { s \in SUBSET RepKeys : Cardinality(s) <= MaxRepKeys } }

\* _get_data returns the representation or raises
FetchErrors == {"NotFound", "BadRequest", "ServerError"}
FetchOutcomes == {"ok"} \cup FetchErrors

\* the attributes the caller reads and assigns
ReadNames == {"name", "size", "wrong_name"}
AssignNames == {"size"}
AssignValues == {Atom("mine")}

(***************************************************************************)
(* GCS._request: one HTTP exchange.  A response is a status code and a     *)
(* body that is JSON or not; the transport may also fail without one.      *)
(***************************************************************************)
Ok200 == 200
Statuses == {Ok200, 400, 401, 403, 404, 409, 412, 503, 302}

Responses ==
    [status : Statuses, json : BOOLEAN, transport : {FALSE}]
        \cup {[status |-> 0, json |-> FALSE, transport |-> TRUE]}

\* an exception, with the status code it carries (0 when it carries none)
Exc(kind, status) == [kind |-> kind, status |-> status]
NoExc == Exc("none", 0)

\* errors.create_http_exception: the typed error of a status code
CreateHttpException(status) ==
    IF status = 400 THEN Exc("BadRequest", status)
    ELSE IF status \in {401, 403} THEN Exc("Forbidden", status)
    ELSE IF status = 404 THEN Exc("NotFound", status)
    ELSE IF status = 409 THEN Exc("Conflict", status)
    ELSE IF status = 412 THEN Exc("PreconditionFailed", status)
    ELSE IF status >= 500 /\ status <= 599 THEN Exc("ServerError", status)
    ELSE Exc("Error", status)

\* GCS._request after requests.request answered resp: the exception it
\* raises, NoExc when it returns the response
RequestRaisesOnErrorStatus(resp, ok, parse) ==
    IF resp.transport THEN Exc("ConnectionError", 0)
    ELSE IF resp.status >= 400 THEN CreateHttpException(resp.status)
    ELSE IF parse /\ ~resp.json THEN Exc("Error", 0)
    ELSE NoExc

RequestRaises(resp, ok, parse) ==
    IF resp.transport THEN Exc("ConnectionError", 0)
    ELSE IF resp.status \notin ok THEN CreateHttpException(resp.status)
    ELSE IF parse /\ ~resp.json THEN Exc("Error", 0)
    ELSE NoExc

\* a status the caller may name as ok instead of 200
Ok203 == 203
RequestStatuses == Statuses \cup {Ok203}

RequestResponses ==
    [status : RequestStatuses, json : BOOLEAN, transport : {FALSE}]
        \cup {[status |-> 0, json |-> FALSE, transport |-> TRUE]}

\* r.content
Content(resp) == IF resp.json THEN "json body" ELSE "raw body"

\* the headers argument: None, or a dict the caller built
NoHeaders == [none |-> TRUE, map |-> [k \in {} |-> ""]]
HeadersDict(m) == [none |-> FALSE, map |-> m]

\* headers = {} if not headers else headers.copy(), then
\* headers['Authorization'] = self._credentials.authorization
CallerHeadersWin(headers, authorization) ==
    [k \in DOMAIN headers.map \cup {"Authorization"} |->
        IF k \in DOMAIN headers.map THEN headers.map[k] ELSE authorization]

SentHeaders(headers, authorization) ==
    [k \in DOMAIN headers.map \cup {"Authorization"} |->
        IF k = "Authorization" THEN authorization ELSE headers.map[k]]

\* the caller's headers object once _request is over: only the copy was
\* written to
HeadersAfter(headers, authorization) == headers

\* requests.utils.quote(value, safe='')
Quote(value) == IF value = "a/b" THEN "a%2Fb" ELSE value

\* the URL of the request: the url argument as it is, or self.URL filled
\* with the quoted values of the attributes that _required_attributes adds
\* to those of GCS
SentUrl(url, extra, values) ==
    IF url = "" THEN [text |-> "URL",
                      args |-> [i \in 1..Len(extra) |-> Quote(values[extra[i]])]]
    ELSE [text |-> url, args |-> <<>>]

\* the calls of quote that building the URL makes
QuoteCalls(url, extra) == IF url = "" THEN Len(extra) ELSE 0

\* **params: every keyword of the call that _request does not declare
\* (op, headers, body, parse, ok, url are declared)
DeclaredKeywords == {"op", "headers", "body", "parse", "ok", "url"}
ParamsNoControl(kwargs) ==
    [k \in DOMAIN kwargs \ (DeclaredKeywords \cup {"format_url"}) |-> kwargs[k]]

SentParams(kwargs) == [k \in DOMAIN kwargs \ DeclaredKeywords |-> kwargs[k]]

\* whether r.json() is called
ParsesAlways(resp, ok, parse) == ~resp.transport /\ resp.status \in ok

Parses(resp, ok, parse) == ~resp.transport /\ resp.status \in ok /\ parse

\* the r.content handed to the exception _request raises ("": none)
Carried(resp, ok, parse) ==
    IF resp.transport THEN ""
    ELSE IF resp.status \notin ok THEN Content(resp)
    ELSE IF parse /\ ~resp.json THEN Content(resp)
    ELSE ""

(***************************************************************************)
(* Resources, their retry configuration and their identity.                *)
(***************************************************************************)
Resources == {"r1", "r2"}

\* RetryParams objects: the process-wide default and one the caller built
DefaultParams == "default"
CustomParams == "custom"
NoParams == "None"
\* max_retries of the two objects
DefaultMaxRetries == 2
CustomMaxRetries == 3

MaxRetriesOf(params) ==
    IF params = DefaultParams THEN DefaultMaxRetries ELSE CustomMaxRetries

\* GCS.__init__: retry_params or RetryParams.get_default()
InitRetryParams(arg) == IF arg = NoParams THEN DefaultParams ELSE arg

\* the credentials object each resource was built with
CredentialsOf(r) == IF r = "r1" THEN "creds1" ELSE "creds2"

(***************************************************************************)
(* The collection a listing reads: a sequence of pages.  Every page but    *)
(* the last carries the token of the page after it.                        *)
(***************************************************************************)
MaxPages == 3
MaxItems == 2

Tokens == <<"t1", "t2", "t3", "t4", "t5", "t6">>

\* what a page holds: an items field of up to MaxItems entries, or none
PageShapes ==
    [count : 0..MaxItems, items : {TRUE}] \cup {[count |-> 0, items |-> FALSE]}

\* page i of n: endtok is the nextPageToken of the last page (absent or
\* empty)
Page(i, n, shape, endtok) ==
    [count |-> shape.count, items |-> shape.items, key |-> "name",
     token |-> IF i < n THEN Atom(Tokens[i]) ELSE endtok]

PageSeqs ==
    UNION { { [i \in 1..n |-> Page(i, n, shapes[i], endtok)] :
                shapes \in [1..n -> PageShapes],
                endtok \in {PyNone, Atom("")} } :
            n \in 1..MaxPages }

\* the raw representations in page i, in order: item j of page i is known
\* by id <<i, j>> and is a dict with the one key of the page's items
ItemsOf(pgs, i) ==
    IF pgs[i].items
    THEN [j \in 1..pgs[i].count |-> [id |-> <<i, j>>, key |-> pgs[i].key]]
    ELSE <<>>

\* the dict of an item
ItemData(b) == [k \in {b.key} |-> Atom("x")]

\* the keys the items of a collection may carry; two of them coincide with
\* the names under which a resource keeps its credentials
ItemKeys == {"name", "credentials", "_credentials"}

\* the page the service answers a request with (0: no such page)
PageFor(pgs, params) ==
    IF "pageToken" \notin DOMAIN params THEN 1
    ELSE IF \E i \in 1..(Len(pgs) - 1) : Tokens[i] = params["pageToken"].atom
         THEN 1 + CHOOSE i \in 1..(Len(pgs) - 1) :
                      Tokens[i] = params["pageToken"].atom
         ELSE 0

\* the collection of the example: [A, B] with token t1, then [C]
ExamplePagesWith(key) ==
    [i \in 1..2 |->
        [Page(i, 2, [count |-> 3 - i, items |-> TRUE], PyNone)
            EXCEPT !.key = key]]

ExamplePages == ExamplePagesWith("name")

\* the query parameters a caller passes to list()
NoQuery == [k \in {} |-> PyNone]
CallerParams == {NoQuery, [k \in {"prefix"} |-> Atom("p")]}

(***************************************************************************)
(* The decorators: common.is_complete outside common.retry outside the     *)
(* method.                                                                 *)
(***************************************************************************)
\* _required_attributes of a resource addressed by name
RequiredAttributes == {"credentials", "name"}

\* common.is_complete: the required attributes that are not set
Missing(attrs) == { a \in RequiredAttributes : attrs[a] = PyNone }

\* common.retry: the failures it answers by calling the method again
Transient(exc) == exc.kind \in {"ServerError", "ConnectionError"}

\* common.retry, after invocation number attempts raised exc: whether the
\* method is called once more (timeUp: max_elapsed has run out)
RetryAgain(params, attempts, exc, timeUp) ==
    /\ params # NoParams
    /\ Transient(exc)
    /\ attempts <= MaxRetriesOf(params)
    /\ ~timeUp

(***************************************************************************)
(* The methods under the decorators.                                       *)
(***************************************************************************)
\* GCS.exists on the outcome of its HEAD request: what it returns or raises
ExistsFalseOnNotFoundOnly(exc) ==
    IF exc = NoExc THEN [kind |-> "True", exc |-> NoExc]
    ELSE IF exc.kind = "NotFound" THEN [kind |-> "False", exc |-> NoExc]
    ELSE [kind |-> exc.kind, exc |-> exc]

ExistsFalseOnAnyError(exc) ==
    IF exc = NoExc THEN [kind |-> "True", exc |-> NoExc]
    ELSE [kind |-> "False", exc |-> NoExc]

ExistsResult(exc) ==
    IF exc = NoExc THEN [kind |-> "True", exc |-> NoExc]
    ELSE IF exc.kind \in {"NotFound", "BadRequest"}
         THEN [kind |-> "False", exc |-> NoExc]
    ELSE [kind |-> exc.kind, exc |-> exc]

\* the credentials property of a Fillable, read through __getattribute__
CredentialsRead(st) ==
    IF "credentials" \in DOMAIN st.g THEN st.g["credentials"]
    ELSE Getattribute(st, "_credentials")

\* cls(credentials=credentials): GCS.__init__ sets self.credentials
NewChild(credentials) ==
    Setattr(NewFillable, "_credentials", Atom(credentials), FALSE)

\* child_cls.obj_from_data(b, self.credentials, self.retry_params): the
\* child as the program sees it
Child(b, credentials, params) ==
    [data |-> b,
     credentials |->
         CredentialsRead(FillWithData(NewChild(credentials), ItemData(b))),
     retry_params |-> InitRetryParams(params)]

\* the objects one page adds to the result, in order
Children(pgs, i, credentials, params) ==
    [j \in 1..Len(ItemsOf(pgs, i)) |->
        Child(ItemsOf(pgs, i)[j], credentials, params)]

\* result.extend(...)
ExtendFront(result, more) == more \o result

Extend(result, more) == result \o more

\* kwargs['pageToken'] = r.get('nextPageToken')
OnlyPageToken(kwargs, token) == [k \in {"pageToken"} |-> token]

WithPageToken(kwargs, token) ==
    [k \in DOMAIN kwargs \cup {"pageToken"} |->
        IF k = "pageToken" THEN token ELSE kwargs[k]]

\* if not kwargs['pageToken']: break
LastPageIfNone(kwargs) == kwargs["pageToken"] = PyNone

LastPage(kwargs) == ~Truthy(kwargs["pageToken"])

(***************************************************************************)
(* The state.                                                              *)
(***************************************************************************)
VARIABLES
    fill,           \* the Fillable instance: its __dict__ and its _gcs_attrs
    remote,         \* the representation the service holds for the resource
    origin,         \* how the instance was built: "new" or "from_data"
    seen,           \* which of "ok", "NotFound" _get_data has answered so far
    assigned,       \* per assignable name: when the caller last assigned it
    last,           \* the last operation on the instance and what it gave
    retry_params,   \* per resource: its _retry_params
    attrs,          \* per resource: the values of its required attributes
    pages,          \* the collection the service holds
    call,           \* the call of exists() or list() in progress, if any
    out,            \* the outcome of the last call that ended
    http            \* one call of _request: its arguments, then what it did

fillVars == <<fill, remote, origin, seen, assigned, last>>
callVars == <<retry_params, attrs, pages, call, out>>
reqVars == <<http>>
vars == <<fill, remote, origin, seen, assigned, last, retry_params, attrs,
          pages, call, out, http>>

\* the flags as the program reads them (self._data_retrieved, self._exists)
Populated(st) == Truthy(Getattribute(st, "_data_retrieved"))
Existence(st) == Getattribute(st, "_exists")

\* what is kept of an operation: its outcome, the number of calls of
\* _get_data it made and the outcome of the last of them, and the instance
\* as it was before: whether the name was bound (bound), the two flags (pop,
\* ex), the fetch outcomes seen until then (had), and whether the operation
\* left the instance as it was (same)
Done(op, name, r, fetch, pre, had) ==
    [op |-> op, name |-> name, kind |-> r.kind, val |-> r.val,
     calls |-> r.calls, fetch |-> fetch,
     bound |-> Bound(pre, name), pop |-> Populated(pre),
     ex |-> Existence(pre), had |-> had, same |-> (r.st = pre)]

NoOp == Done("none", "", Returned(NewFillable, PyNone, 0), "none",
             NewFillable, {})

Idle ==
    [pc |-> "idle", op |-> "none", res |-> "r1", params |-> NoQuery,
     kwargs |-> NoQuery, result |-> <<>>, attempts |-> 0, reqs |-> <<>>,
     raised |-> NoExc, late |-> FALSE]

NoOut ==
    [op |-> "none", res |-> "r1", kind |-> "none", exc |-> NoExc,
     value |-> <<>>, attempts |-> 0, reqs |-> <<>>, raised |-> NoExc,
     params |-> NoQuery, policy |-> NoParams, missing |-> {},
     timeUp |-> FALSE, before |-> [r \in Resources |-> NoParams]]

\* a call ends: what the caller gets (kind, exc, value) and what the call
\* did: the invocations of the method (attempts), the requests of the last
\* of them (reqs), what its last request raised (raised), and the
\* configuration it ran under
End(c, kind, exc, value, timeUp) ==
    [op |-> c.op, res |-> c.res, kind |-> kind, exc |-> exc,
     value |-> value, attempts |-> c.attempts, reqs |-> c.reqs,
     raised |-> c.raised, params |-> c.params,
     policy |-> retry_params[c.res], missing |-> Missing(attrs[c.res]),
     timeUp |-> timeUp, before |-> retry_params]

\* one invocation of the decorated method starts: **kwargs is a new dict
\* holding the caller's parameters, result is a new list
\* (late notes that an invocation given up had got past its first page)
StartAttemptWhereItStopped(c) ==
    [c EXCEPT !.pc = "run",
              !.attempts = c.attempts + 1, !.reqs = <<>>,
              !.late = c.late \/ "pageToken" \in DOMAIN c.kwargs]

StartAttempt(c) ==
    [c EXCEPT !.pc = "run", !.kwargs = c.params, !.result = <<>>,
              !.attempts = c.attempts + 1, !.reqs = <<>>,
              !.late = c.late \/ "pageToken" \in DOMAIN c.kwargs]

\* requests.request(op, url, params=params, ...) is issued, and _request
\* raises exc (NoExc: it returns)
Sending(c, op, params, exc) ==
    [c EXCEPT !.reqs = Append(c.reqs, [op |-> op, params |-> params]),
              !.raised = exc]

\* the decorators of exists() and _list(): is_complete is applied outside
\* retry, so the attributes are checked once, before retry is entered
RetryOutsideCheck(c, missing) ==
    IF missing # {} THEN [StartAttempt(c) EXCEPT !.pc = "incomplete"]
    ELSE StartAttempt(c)

Guarded(c, missing) ==
    IF missing # {} THEN [c EXCEPT !.pc = "incomplete"] ELSE StartAttempt(c)

AttrChoices == [RequiredAttributes -> {PyNone, Atom("set")}]

\* what requests.request was called with
NothingSent ==
    [op |-> "", url |-> [text |-> "", args |-> <<>>], params |-> NoQuery,
     headers |-> [k \in {} |-> ""], data |-> ""]

\* the arguments a caller gives _request
HeaderChoices ==
    { NoHeaders, HeadersDict([k \in {} |-> ""]),
      HeadersDict([k \in {"head"} |-> "hello"]),
      HeadersDict([k \in {"head", "Authorization"} |->
                      IF k = "head" THEN "hello" ELSE "mine"]) }

KeywordChoices ==
    { [k \in ks |-> IF k = "format_url" THEN PyFalse ELSE Atom("p1")] :
        ks \in SUBSET {"param1", "format_url"} }

\* the values of the attributes of the resource, and the authorization of
\* its credentials before and after a refresh
AttributeValues == [k \in {"name"} |-> "a/b"]
Authorizations == <<"token1", "token2">>

\* a call of _request that has not run yet
HttpCall(op, headers, parse, ok, url, kwargs, extra) ==
    [pc |-> "pending", op |-> op, headers |-> headers, body |-> "body",
     parse |-> parse, ok |-> ok, url |-> url, kwargs |-> kwargs,
     extra |-> extra, authorization |-> Authorizations[1],
     sent |-> NothingSent, status |-> 0, content |-> "", exc |-> NoExc,
     carried |-> "", parsed |-> FALSE, quoted |-> 0,
     headersAfter |-> headers]

HttpCalls ==
    { HttpCall(op, headers, parse, ok, url, kwargs, extra) :
        op \in {"GET", "HEAD"}, headers \in HeaderChoices,
        parse \in BOOLEAN, ok \in {{Ok200}, {Ok203}},
        url \in {"", "url_{nosize}"}, kwargs \in KeywordChoices,
        extra \in {<<>>, <<"name">>} }

NoHttp ==
    [HttpCall("", NoHeaders, FALSE, {}, "", NoQuery, <<>>)
        EXCEPT !.pc = "none"]

(***************************************************************************)
(* Initial states.  SpecFill: one Fillable, read and assigned.  SpecCall:  *)
(* exists() and list() on two resources of any configuration.  SpecList:   *)
(* list() of any collection.  The variables a specification does not speak *)
(* of stay as FillQuiet or CallQuiet leave them.                           *)
(***************************************************************************)
FillQuiet ==
    /\ remote = EmptyDict
    /\ origin = "new"
    /\ fill = NewFillable
    /\ seen = {}
    /\ assigned = [x \in AssignNames |-> [when |-> "never", val |-> PyNone]]
    /\ last = NoOp

ReqQuiet == http = NoHttp

CallQuiet ==
    /\ retry_params = [r \in Resources |-> InitRetryParams(NoParams)]
    /\ attrs = [r \in Resources |-> [a \in RequiredAttributes |-> Atom("set")]]
    /\ pages = ExamplePages
    /\ call = Idle
    /\ out = NoOut

\* Fillable(credentials) or Fillable.obj_from_data(data, credentials)
InitFill ==
    /\ remote \in Representations
    /\ origin \in {"new", "from_data"}
    /\ fill = IF origin = "new" THEN NewFillable ELSE ObjFromData(remote)
    /\ seen = {}
    /\ assigned = [x \in AssignNames |-> [when |-> "never", val |-> PyNone]]
    /\ last = NoOp
    /\ CallQuiet
    /\ ReqQuiet

\* two resources, each built with or without a RetryParams of its own and
\* with any of its required attributes left unset
InitCall ==
    /\ retry_params \in
           [Resources -> {InitRetryParams(a) : a \in {NoParams, CustomParams}}]
    /\ attrs \in [Resources -> AttrChoices]
    /\ pages \in {ExamplePagesWith(key) : key \in ItemKeys}
    /\ call = Idle
    /\ out = NoOut
    /\ FillQuiet
    /\ ReqQuiet

\* a listing of any collection, on resources that are complete and use the
\* default retry configuration
InitList ==
    /\ retry_params = [r \in Resources |-> InitRetryParams(NoParams)]
    /\ attrs = [r \in Resources |-> [a \in RequiredAttributes |-> Atom("set")]]
    /\ pages \in PageSeqs
    /\ call = Idle
    /\ out = NoOut
    /\ FillQuiet
    /\ ReqQuiet

\* a resource and a call of _request on it, with any arguments
InitRequest ==
    /\ http \in HttpCalls
    /\ FillQuiet
    /\ CallQuiet

\* a Fillable as its constructors leave it, with the credentials and the
\* retry configuration GCS.__init__ stores on it
NewResource ==
    Setattr(NewChild(CredentialsOf("r1")), "_retry_params",
            Atom(InitRetryParams(NoParams)), FALSE)

\* the representations of the resource that exists() is called on
ProbeRepresentations ==
    { r \in Representations :
        /\ Cardinality(DOMAIN r) <= 1
        /\ \A k \in DOMAIN r : r[k] \in {Atom("v1"), PyFalse} }

\* one Fillable that the caller reads and calls exists() on
InitProbe ==
    /\ remote \in ProbeRepresentations
    /\ origin \in {"new", "from_data"}
    /\ fill = IF origin = "new" THEN NewResource
              ELSE FillWithData(NewResource, remote)
    /\ seen = {}
    /\ assigned = [x \in AssignNames |-> [when |-> "never", val |-> PyNone]]
    /\ last = NoOp
    /\ CallQuiet
    /\ ReqQuiet

\* the attributes of the instance that exists() and _request look up: the
\* retry configuration and the credentials (Fillable adds no attribute to
\* _required_attributes, so the URL takes none)
ExistsLookups == <<"_retry_params", "_credentials">>

\* what exists() assigns on the instance: nothing
ExistsRecordsAnswer(st, result) ==
    IF result.kind = "False" THEN Setattr(st, "_exists", PyFalse, FALSE)
    ELSE st

ExistsAssigns(st, result) == st

\* fill.exists() with its HEAD request answered by resp: the lookups, each
\* a read of the instance, then the result of GCS.exists
ExistsOn(st, resp, outs, data) ==
    LET r1 == ReadAttr(st, ExistsLookups[1], outs, data)
        r2 == ReadAttr(r1.st, ExistsLookups[2], outs, data)
        result == ExistsResult(RequestRaises(resp, {Ok200}, FALSE))
    IN  [st |-> ExistsAssigns(r2.st, result), kind |-> result.kind,
         val |-> PyNone, calls |-> r1.calls + r2.calls]

(***************************************************************************)
(* Actions.                                                                *)
(***************************************************************************)
\* getattr(fill, name): the whole read, with every fetch it makes
Read(name, outs) ==
    LET r == ReadAttr(fill, name, outs, remote)
    IN  /\ fill' = r.st
        /\ seen' = seen \cup ({ outs[i] : i \in 1..r.calls }
                                \cap {"ok", "NotFound"})
        /\ last' = Done("read", name, r,
                        IF r.calls = 0 THEN "none" ELSE outs[r.calls],
                        fill, seen)
        /\ UNCHANGED <<remote, origin, assigned>>
        /\ UNCHANGED callVars
        /\ UNCHANGED reqVars

\* fill.name = value
Assign(name, value) ==
    /\ fill' = Setattr(fill, name, value, FALSE)
    /\ assigned' = [assigned EXCEPT ![name] =
                       [when |-> IF "ok" \in seen THEN "after" ELSE "before",
                        val |-> value]]
    /\ last' = Done("assign", name,
                    Returned(Setattr(fill, name, value, FALSE), value, 0),
                    "none", fill, seen)
    /\ UNCHANGED <<remote, origin, seen>>
    /\ UNCHANGED callVars
    /\ UNCHANGED reqVars

\* the outcomes of the successive calls of _get_data within one read: only
\* a successful call is followed by another, so the first k calls succeed
\* and every later one ends as final
FetchRun(k, final) == [i \in 1..MaxDepth |-> IF i <= k THEN "ok" ELSE final]

\* fill.exists(), retries disabled or not needed: one HEAD request
Exists(resp) ==
    LET r == ExistsOn(fill, resp, FetchRun(MaxDepth, "NotFound"), remote)
    IN  /\ fill' = r.st
        /\ seen' = seen \cup ({r.kind} \cap {"False"})
        /\ last' = Done("exists", "", r, "none", fill, seen)
        /\ UNCHANGED <<remote, origin, assigned>>
        /\ UNCHANGED callVars
        /\ UNCHANGED reqVars

NextProbe ==
    \/ \E name \in ReadNames, k \in 0..MaxDepth, final \in FetchErrors :
          Read(name, FetchRun(k, final))
    \/ \E resp \in Responses : Exists(resp)

NextFill ==
    \/ \E name \in ReadNames, k \in 0..MaxDepth, final \in FetchErrors :
          Read(name, FetchRun(k, final))
    \/ \E name \in AssignNames, value \in AssignValues : Assign(name, value)

\* what may be assigned to retry_params: None, a RetryParams, anything else
SetterValues == {NoParams, DefaultParams, CustomParams, "1"}

\* the retry_params setter: the new configuration of every resource
SetterAssignsAll(params, r, value) == [x \in DOMAIN params |-> value]

SetterAssigns(params, r, value) == [params EXCEPT ![r] = value]

\* resource.retry_params = value; the setter asserts the type of value
SetRetryParams(r, value) ==
    /\ call.pc = "idle"
    /\ LET c == [Idle EXCEPT !.op = "set", !.res = r]
       IN  IF value \in {NoParams, DefaultParams, CustomParams}
           THEN /\ retry_params' = SetterAssigns(retry_params, r, value)
                /\ out' = [End(c, "None", NoExc, <<>>, FALSE)
                              EXCEPT !.policy = value]
           ELSE /\ retry_params' = retry_params
                /\ out' = End(c, "AssertionError", Exc("AssertionError", 0),
                              <<>>, FALSE)
    /\ UNCHANGED <<attrs, pages, call>>
    /\ UNCHANGED fillVars
    /\ UNCHANGED reqVars

\* resource.exists() or resource.list(**params) is called: is_complete
\* checks the required attributes, then retry invokes the method
Invoke(r, op, params) ==
    /\ call.pc = "idle"
    /\ LET c == Guarded([Idle EXCEPT !.op = op, !.res = r, !.params = params],
                        Missing(attrs[r]))
       IN  IF c.pc = "incomplete"
           THEN /\ out' = End(c, "IncompleteResource",
                              Exc("IncompleteResource", 0), <<>>, FALSE)
                /\ call' = Idle
           ELSE /\ call' = c
                /\ out' = NoOut
    /\ UNCHANGED <<retry_params, attrs, pages>>
    /\ UNCHANGED fillVars
    /\ UNCHANGED reqVars

\* the method raised exc: retry calls it again or lets the error through
AfterRaise(c, exc, timeUp) ==
    IF RetryAgain(retry_params[c.res], c.attempts, exc, timeUp)
    THEN /\ call' = StartAttempt(c)
         /\ out' = out
    ELSE /\ call' = Idle
         /\ out' = End(c, exc.kind, exc, <<>>,
                       timeUp /\ RetryAgain(retry_params[c.res], c.attempts,
                                            exc, FALSE))

\* exists(): the HEAD request is answered by resp
ExistsStep(resp, timeUp) ==
    /\ call.pc = "run" /\ call.op = "exists"
    /\ LET c == Sending(call, "HEAD", NoQuery,
                        RequestRaises(resp, {Ok200}, FALSE))
           r == ExistsResult(c.raised)
       IN  IF r.exc = NoExc
           THEN /\ call' = Idle
                /\ out' = End(c, r.kind, NoExc, <<>>, FALSE)
           ELSE AfterRaise(c, r.exc, timeUp)
    /\ UNCHANGED <<retry_params, attrs, pages>>
    /\ UNCHANGED fillVars
    /\ UNCHANGED reqVars

\* list(): the request for the next page is answered by resp; a response
\* of status 200 with a JSON body carries the page the token stands for
ListStep(resp, timeUp) ==
    /\ call.pc = "run" /\ call.op = "list"
    /\ LET exc == RequestRaises(resp, {Ok200}, TRUE)
           c == Sending(call, "GET", call.kwargs, exc)
           i == PageFor(pages, call.kwargs)
       IN  /\ (exc = NoExc) => i # 0
           /\ IF exc # NoExc THEN AfterRaise(c, exc, timeUp)
              ELSE LET result == Extend(c.result,
                                         Children(pages, i,
                                                  CredentialsOf(c.res),
                                                  retry_params[c.res]))
                       kwargs == WithPageToken(c.kwargs, pages[i].token)
                   IN  IF LastPage(kwargs)
                       THEN /\ call' = Idle
                            /\ out' = End([c EXCEPT !.kwargs = kwargs],
                                          "list", NoExc, result, FALSE)
                       ELSE /\ call' = [c EXCEPT !.kwargs = kwargs,
                                                 !.result = result]
                            /\ out' = out
    /\ UNCHANGED <<retry_params, attrs, pages>>
    /\ UNCHANGED fillVars
    /\ UNCHANGED reqVars

\* the credentials are refreshed before the call: authorization changes
Refresh ==
    /\ http.pc = "pending"
    /\ http.authorization = Authorizations[1]
    /\ http' = [http EXCEPT !.authorization = Authorizations[2]]
    /\ UNCHANGED fillVars
    /\ UNCHANGED callVars

\* self._request(op, headers, body, parse, ok, url, **kwargs), with
\* requests.request answering resp
Request(resp) ==
    /\ http.pc = "pending"
    /\ http' =
         [http EXCEPT
            !.pc = "done",
            !.sent = [op |-> http.op,
                      url |-> SentUrl(http.url, http.extra, AttributeValues),
                      params |-> SentParams(http.kwargs),
                      headers |-> SentHeaders(http.headers,
                                              http.authorization),
                      data |-> http.body],
            !.status = resp.status,
            !.content = IF resp.transport THEN "" ELSE Content(resp),
            !.exc = RequestRaises(resp, http.ok, http.parse),
            !.carried = Carried(resp, http.ok, http.parse),
            !.parsed = Parses(resp, http.ok, http.parse),
            !.quoted = QuoteCalls(http.url, http.extra),
            !.headersAfter = HeadersAfter(http.headers, http.authorization)]
    /\ UNCHANGED fillVars
    /\ UNCHANGED callVars

NextRequest ==
    \/ Refresh
    \/ \E resp \in RequestResponses : Request(resp)

\* the answers a listing tells apart: a page, a body that is not JSON, an
\* error that is not retried, one that is, and a failure of the transport
ListResponses ==
    { resp \in Responses :
        \/ resp.transport
        \/ resp.status = Ok200
        \/ resp.status \in {404, 503} /\ ~resp.json }

NextList ==
    \/ \E r \in Resources, params \in CallerParams : Invoke(r, "list", params)
    \/ \E resp \in ListResponses, timeUp \in BOOLEAN : ListStep(resp, timeUp)

\* a service that answers every request of a listing with its page
OkResponses == {resp \in Responses : resp.status = Ok200 /\ resp.json}

PageStep == \E resp \in OkResponses : ListStep(resp, FALSE)

NextPaging ==
    \/ \E r \in Resources, params \in CallerParams : Invoke(r, "list", params)
    \/ PageStep

NextCall ==
    \/ \E r \in Resources, value \in SetterValues : SetRetryParams(r, value)
    \/ \E r \in Resources : Invoke(r, "exists", NoQuery)
    \/ \E r \in Resources, params \in CallerParams : Invoke(r, "list", params)
    \/ \E resp \in Responses, timeUp \in BOOLEAN : ExistsStep(resp, timeUp)
    \/ \E resp \in Responses, timeUp \in BOOLEAN : ListStep(resp, timeUp)

(***************************************************************************)
(* The specifications.                                                     *)
(***************************************************************************)
SpecFill == InitFill /\ [][NextFill]_vars

SpecProbe == InitProbe /\ [][NextProbe]_vars

SpecCall == InitCall /\ [][NextCall]_vars

SpecList == InitList /\ [][NextList]_vars

SpecRequest == InitRequest /\ [][NextRequest]_vars

\* list() runs to its end once called: each request is answered and the
\* loop goes on
SpecPaging == InitList /\ [][NextPaging]_vars /\ WF_vars(PageStep)

(***************************************************************************)
(* Claims about the lazy fill, checked under SpecFill.                     *)
(***************************************************************************)
\* the last operation was a read of a name that was not bound
MissedRead == last.op = "read" /\ ~last.bound

\* C1: on an instance built unpopulated with existence unknown, the first
\* read of an unbound attribute calls _get_data exactly once; and once a
\* call of _get_data has succeeded, every read of a still unbound attribute
\* raises AttributeError and calls _get_data no more.
C1_FetchOnceThenNever ==
    (MissedRead /\ origin = "new") =>
        /\ (~last.pop /\ last.ex = PyNone /\ last.had = {}) => last.calls = 1
        /\ "ok" \in last.had =>
               (last.calls = 0 /\ last.kind = "AttributeError")

\* C2: a read whose call of _get_data raised NotFound raises AttributeError,
\* leaves existence False (confirmed absent) and populated false as it was;
\* and from then on every read of an unbound attribute raises
\* AttributeError without calling _get_data.
C2_NotFoundIsFinal ==
    /\ (last.op = "read" /\ last.fetch = "NotFound") =>
           /\ last.kind = "AttributeError"
           /\ Existence(fill) = PyFalse
           /\ ~last.pop /\ ~Populated(fill)
    /\ (MissedRead /\ "NotFound" \in last.had) =>
           (last.calls = 0 /\ last.kind = "AttributeError")

\* C2 witness: after a NotFound, a read of an unbound attribute was refused
\* without a fetch
C2_Witness ==
    /\ MissedRead /\ "NotFound" \in last.had
    /\ last.calls = 0 /\ last.kind = "AttributeError"
    /\ Existence(fill) = PyFalse

\* C3: a read whose call of _get_data raised an error other than NotFound
\* raises that same error and leaves the instance exactly as it was before
\* the read, so that the next read of an unbound attribute fetches again.
C3_OtherErrorLeavesState ==
    (last.op = "read" /\ last.fetch \in FetchErrors \ {"NotFound"}) =>
        /\ last.kind = last.fetch
        /\ last.same
        /\ ~GetattrGuard(fill)

\* C4: an attribute assigned before any fetch succeeded reads as assigned,
\* without a fetch, until a fetch succeeds; after a successful fetch of a
\* representation that defines it, it reads as the fetched (merged) value.
C4_FetchedValueWins ==
    \A x \in AssignNames :
        (last.op = "read" /\ last.name = x /\ assigned[x].when = "before") =>
            /\ "ok" \notin last.had =>
                   /\ last.kind = "value" /\ last.val = assigned[x].val
                   /\ last.calls = 0
            /\ ("ok" \in last.had /\ x \in DOMAIN remote) =>
                   /\ last.kind = "value" /\ last.val = Flatten(remote[x])
                   /\ last.val # assigned[x].val
                   /\ last.calls = 0

\* C4 witness: the assigned attribute was read after a successful fetch of
\* a representation that defines it
C4_Witness ==
    \E x \in AssignNames :
        /\ last.op = "read" /\ last.name = x /\ assigned[x].when = "before"
        /\ "ok" \in last.had /\ x \in DOMAIN remote
        /\ origin = "new"
        /\ last.val = Flatten(remote[x])

(***************************************************************************)
(* Claims about listing, checked under SpecList.                           *)
(***************************************************************************)
\* the items of the first n pages, page after page
RECURSIVE ItemsUpTo(_, _)
ItemsUpTo(pgs, n) ==
    IF n = 0 THEN <<>> ELSE ItemsUpTo(pgs, n - 1) \o ItemsOf(pgs, n)

\* C5: a listing that returns, returns one object per item of the pages, in
\* page order and then within-page order: nothing dropped, nothing twice,
\* nothing out of place, whatever attempts were given up before.
C5_ListIsConcatenation ==
    (out.op = "list" /\ out.kind = "list") =>
        /\ Len(out.value) = Len(ItemsUpTo(pages, Len(pages)))
        /\ \A k \in 1..Len(out.value) :
               out.value[k].data = ItemsUpTo(pages, Len(pages))[k]

\* C5 witness: a listing of three pages, the first full, the second empty,
\* returned after an attempt that failed was retried
C5_Witness ==
    /\ out.op = "list" /\ out.kind = "list"
    /\ Len(pages) >= 3
    /\ pages[1].count >= 2 /\ pages[2].count = 0 /\ pages[3].count >= 1
    /\ out.attempts >= 2
    /\ Len(out.value) >= 3

\* the query parameters request i of a listing is to carry
ExpectedParams(params, i) ==
    IF i = 1 THEN params
    ELSE [k \in DOMAIN params \cup {"pageToken"} |->
             IF k = "pageToken" THEN pages[i - 1].token ELSE params[k]]

\* the requests of one invocation of list() follow the pages
FollowsPages(reqs, params) ==
    /\ Len(reqs) <= Len(pages)
    /\ \A i \in 1..Len(reqs) :
           reqs[i] = [op |-> "GET", params |-> ExpectedParams(params, i)]

\* C6: an invocation of list() issues one request per page: the first with
\* the caller's query parameters, request i > 1 with the same parameters
\* plus pageToken = the token of page i - 1; a listing that returns has
\* issued as many requests as there are pages, so none after the page that
\* has no token.
C6_OneRequestPerPage ==
    /\ call.op = "list" => FollowsPages(call.reqs, call.params)
    /\ out.op = "list" =>
           /\ FollowsPages(out.reqs, out.params)
           /\ out.kind = "list" => Len(out.reqs) = Len(pages)

\* C6 witness: a listing with a caller's parameter went through three pages
\* and stopped at an empty token
C6_Witness ==
    /\ out.op = "list" /\ out.kind = "list"
    /\ out.params # NoQuery
    /\ Len(out.reqs) >= 3
    /\ pages[Len(pages)].token = Atom("")

(***************************************************************************)
(* Claims about the decorated calls, checked under SpecCall.               *)
(***************************************************************************)
\* the last call was exists() or list() on a resource that is complete
CompleteCall == out.op \in {"exists", "list"} /\ out.missing = {}

\* C7: exists() sends one HEAD request; it returns True when the request
\* succeeds, False when it fails with NotFound or BadRequest, and raises
\* the error of the request when it fails with any other kind.
C7_ExistsByProbe ==
    (out.op = "exists" /\ out.missing = {}) =>
        /\ out.reqs = <<[op |-> "HEAD", params |-> NoQuery]>>
        /\ out.raised = NoExc => out.kind = "True"
        /\ out.raised.kind \in {"NotFound", "BadRequest"} =>
               out.kind = "False"
        /\ out.raised.kind \notin {"none", "NotFound", "BadRequest"} =>
               (out.kind = out.raised.kind /\ out.exc = out.raised)

\* C7 witness: exists() returned False on a BadRequest
C7_Witness ==
    /\ out.op = "exists" /\ out.missing = {}
    /\ out.raised.kind = "BadRequest" /\ out.kind = "False"

\* C8: exists() or list() on a resource with a required attribute unset
\* raises IncompleteResource, sends no request and never invokes the method
\* under retry; a call that is running is on a complete resource.
C8_IncompleteFailsBeforeAnyRequest ==
    /\ (out.op \in {"exists", "list"} /\ out.missing # {}) =>
           /\ out.kind = "IncompleteResource"
           /\ out.reqs = <<>>
           /\ out.attempts = 0
    /\ call.pc # "idle" => Missing(attrs[call.res]) = {}

\* C8 witness: list() on a resource without a name was refused
C8_Witness ==
    /\ out.op = "list" /\ out.missing = {"name"}
    /\ out.kind = "IncompleteResource" /\ out.attempts = 0

\* C9: under a retry configuration with max_retries = N, with max_elapsed
\* not reached, a call whose last request failed with ServerError has
\* invoked the method N + 1 times and raises that ServerError as it is.
C9_ServerErrorAfterAllRetries ==
    (CompleteCall /\ out.raised.kind = "ServerError"
                  /\ out.policy # NoParams /\ ~out.timeUp) =>
        /\ out.kind = "ServerError"
        /\ out.exc = out.raised
        /\ out.attempts = MaxRetriesOf(out.policy) + 1

\* C9 witness: exists() under the caller's RetryParams gave up after
\* max_retries + 1 invocations
C9_Witness ==
    /\ out.op = "exists" /\ out.missing = {}
    /\ out.policy = CustomParams /\ ~out.timeUp
    /\ out.kind = "ServerError"
    /\ out.attempts = CustomMaxRetries + 1

\* C10: a call on a resource whose retry_params is None invokes the method
\* once and raises the failure of that invocation; assigning retry_params
\* changes the configuration of that resource and of no other; and a call
\* on a resource that has a configuration still retries as it says.
C10_NoneDisablesRetryOfThatResource ==
    /\ (CompleteCall /\ out.policy = NoParams) =>
           /\ out.attempts = 1
           /\ Transient(out.raised) =>
                  (out.exc = out.raised /\ out.kind = out.raised.kind)
    /\ (out.op = "set" /\ out.kind = "None") =>
           /\ retry_params[out.res] = out.policy
           /\ \A r \in Resources \ {out.res} :
                  retry_params[r] = out.before[r]
    /\ (CompleteCall /\ out.policy # NoParams /\ Transient(out.exc)
                     /\ ~out.timeUp) =>
           out.attempts = MaxRetriesOf(out.policy) + 1

\* C10 witness: with None assigned to one resource, a call on it failed at
\* its first ServerError while the other resource kept its configuration
C10_Witness ==
    /\ CompleteCall /\ out.policy = NoParams
    /\ out.kind = "ServerError" /\ out.attempts = 1
    /\ \E r \in Resources \ {out.res} : retry_params[r] # NoParams

(***************************************************************************)
(* Further claims about the lazy fill, checked under SpecFill.             *)
(***************************************************************************)
\* C11: an instance built by obj_from_data is populated with existence
\* unknown (None) and has every key of the representation bound; a read of
\* a name that is not bound raises AttributeError and never calls
\* _get_data.
C11_FromDataNeverFetches ==
    origin = "from_data" =>
        /\ last.op = "none" =>
               /\ Populated(fill) /\ Existence(fill) = PyNone
               /\ \A k \in DOMAIN remote : Bound(fill, k)
        /\ MissedRead => (last.calls = 0 /\ last.kind = "AttributeError")

(***************************************************************************)
(* Further claims about the calls, checked under SpecCall.                 *)
(***************************************************************************)
\* C12: every object a listing returns has, as its credentials, the
\* credentials of the resource that was listed.
C12_ChildrenShareCredentials ==
    (out.op = "list" /\ out.kind = "list") =>
        \A k \in 1..Len(out.value) :
            out.value[k].credentials = Atom(CredentialsOf(out.res))

\* C19, checked under SpecPaging: a listing that is answered page after
\* page comes to its end and returns, having followed the token of every
\* page, the pages without an items field included, and holding one object
\* per item.
C19_ListTerminates ==
    (call.pc = "run" /\ call.op = "list") ~>
        /\ call.pc = "idle"
        /\ out.op = "list" /\ out.kind = "list"
        /\ Len(out.reqs) = Len(pages)
        /\ Len(out.value) = Len(ItemsUpTo(pages, Len(pages)))

\* C19 witness: a listing returned after a page that had no items field
\* and was not the last, and the collection ended with an empty token
C19_Witness ==
    /\ call.pc = "idle" /\ out.op = "list" /\ out.kind = "list"
    /\ \E i \in 1..(Len(pages) - 1) : ~pages[i].items
    /\ Len(out.reqs) = Len(pages)
    /\ pages[Len(pages)].token = Atom("")
    /\ Len(out.value) >= 1

\* C18 is checked under SpecFill.
\* the representation has just been merged: by obj_from_data, or by the
\* last call of _get_data of the last read
MergedJustNow ==
    \/ origin = "from_data" /\ last.op = "none"
    \/ last.op = "read" /\ last.fetch = "ok"

\* C18: right after a merge every key of the representation is stored in
\* _gcs_attrs: a value that is a mapping of exactly one entry as the value
\* of that entry, taken as it is (one level only), and any other value
\* unchanged.
C18_SingleEntryFlattened ==
    MergedJustNow =>
        \A k \in DOMAIN remote :
            /\ k \in DOMAIN fill.g
            /\ fill.g[k] =
                   IF remote[k].tag = "dict" /\ Len(remote[k].ents) = 1
                   THEN remote[k].ents[1].v
                   ELSE remote[k]

\* C18 witness: a fetch merged a mapping whose one entry is itself a
\* mapping of one entry, next to a mapping of two entries
C18_Witness ==
    /\ last.op = "read" /\ last.fetch = "ok"
    /\ \E k \in DOMAIN remote :
           /\ remote[k].tag = "dict" /\ Len(remote[k].ents) = 1
           /\ remote[k].ents[1].v.tag = "dict"
           /\ fill.g[k] = remote[k].ents[1].v
    /\ \E k \in DOMAIN remote :
           /\ Len(remote[k].ents) = 2
           /\ fill.g[k] = remote[k]

\* C20, checked under SpecFill, with populated and existence as the program
\* reads them: existence True (confirmed) implies populated, existence
\* False (confirmed absent) implies not populated; populated never goes
\* back to false, and existence, once True or False, never changes.
C20_FlagsAgree ==
    /\ Existence(fill) = PyTrue => Populated(fill)
    /\ Existence(fill) = PyFalse => ~Populated(fill)

C20_FlagsStep ==
    /\ Populated(fill) => Populated(fill')
    /\ Existence(fill) \in {PyTrue, PyFalse} =>
           Existence(fill') = Existence(fill)

C20_FlagsAgreeAndStay == []C20_FlagsAgree /\ [][C20_FlagsStep]_vars

\* the typed errors of the taxonomy
Taxonomy ==
    {"BadRequest", "Forbidden", "NotFound", "Conflict", "PreconditionFailed",
     "ServerError", "IncompleteResource", "Error"}

\* C16: what a caller gets from exists(), list() or an attribute read is a
\* value, AttributeError or a typed error of the taxonomy; never the
\* exception the transport library raised.
C16_OnlyTypedOutcomes ==
    /\ out.op \in {"exists", "list"} =>
           out.kind \in {"True", "False", "list"} \cup Taxonomy
    /\ last.op = "read" =>
           last.kind \in {"value", "AttributeError"} \cup Taxonomy

(***************************************************************************)
(* Claims about _request, checked under SpecRequest.                       *)
(***************************************************************************)
\* _request has run and requests.request gave it a response
Answered == http.pc = "done" /\ http.status # 0

\* the error kind the mapping gives a status
KindOfStatus(status) ==
    CASE status = 400 -> "BadRequest"
      [] status \in {401, 403} -> "Forbidden"
      [] status = 404 -> "NotFound"
      [] status = 409 -> "Conflict"
      [] status = 412 -> "PreconditionFailed"
      [] status \in 500..599 -> "ServerError"
      [] OTHER -> "Error"

\* C13: _request returns the response only when its status is one of ok;
\* for any other status it raises the error kind the mapping gives that
\* status, and the generic Error carries the status code and the raw body.
C13_StatusDecides ==
    Answered =>
        /\ http.exc = NoExc => http.status \in http.ok
        /\ http.status \notin http.ok =>
               /\ http.exc.kind = KindOfStatus(http.status)
               /\ http.exc.status = http.status
               /\ http.carried = http.content

\* C13 witness: status 200 when the caller named only 203 as ok raised the
\* generic Error with the status and the body
C13_Witness ==
    /\ Answered /\ http.status = Ok200 /\ http.ok = {Ok203}
    /\ http.exc = Exc("Error", Ok200) /\ http.carried = http.content

\* C14: the request carries Authorization = the authorization of the
\* credentials when _request is called, and every other header of the
\* caller; an Authorization header of the caller does not replace it, and
\* the caller's headers object is left as it was.
C14_AuthorizationAlwaysSet ==
    http.pc = "done" =>
        /\ DOMAIN http.sent.headers =
               DOMAIN http.headers.map \cup {"Authorization"}
        /\ http.sent.headers["Authorization"] = http.authorization
        /\ \A k \in DOMAIN http.headers.map \ {"Authorization"} :
               http.sent.headers[k] = http.headers.map[k]
        /\ http.headersAfter = http.headers

\* C14 witness: the caller passed an Authorization header of their own and
\* the credentials were refreshed before the call
C14_Witness ==
    /\ http.pc = "done"
    /\ "Authorization" \in DOMAIN http.headers.map
    /\ http.authorization = Authorizations[2]
    /\ http.sent.headers["Authorization"] = Authorizations[2]
    /\ http.sent.headers["head"] = "hello"

\* C15: with parse requested, a response whose status is ok and whose body
\* is not JSON makes _request raise the generic Error with the raw body,
\* and one whose body is JSON is returned; with parse not requested the
\* body is never parsed and the response is returned.
C15_ParseOnlyOnRequest ==
    (Answered /\ http.status \in http.ok) =>
        /\ (http.parse /\ http.content = "raw body") =>
               (http.exc.kind = "Error" /\ http.carried = http.content)
        /\ (http.parse /\ http.content = "json body") => http.exc = NoExc
        /\ ~http.parse => (~http.parsed /\ http.exc = NoExc)

\* C15 witness: parse was requested and an ok response had no JSON body
C15_Witness ==
    /\ Answered /\ http.status \in http.ok /\ http.parse
    /\ http.content = "raw body" /\ http.parsed
    /\ http.exc.kind = "Error"

\* C17: a call that gives a URL and turns the templating off sends the
\* request to that URL as it is, calls quote on nothing, and sends as query
\* parameters only what the caller passed as query parameters.
C17_LiteralUrlUntouched ==
    (http.pc = "done" /\ http.url # "") =>
        /\ http.sent.url = [text |-> http.url, args |-> <<>>]
        /\ http.quoted = 0
        /\ http.sent.params = ParamsNoControl(http.kwargs)

(***************************************************************************)
(* Claims about a listing that is retried, checked under SpecList.         *)
(***************************************************************************)
\* C22: when an invocation of list() that had got past its first page is
\* given up and retry invokes list() again, the new invocation sends its
\* first request with the caller's parameters and no pageToken and starts
\* from an empty result; and a list returned after any retry holds the
\* items of the pages, once each and in order, and nothing of the
\* invocations given up.
C22_RetryStartsOver ==
    /\ (call.op = "list" /\ call.late) =>
           /\ Len(call.result) <= Len(ItemsUpTo(pages, Len(call.reqs)))
           /\ Len(call.reqs) = 0 =>
                  (call.kwargs = call.params /\ call.result = <<>>)
           /\ Len(call.reqs) >= 1 =>
                  /\ call.reqs[1].params = call.params
                  /\ "pageToken" \notin DOMAIN call.reqs[1].params
    /\ (out.op = "list" /\ out.kind = "list" /\ out.attempts >= 2) =>
           /\ out.reqs[1].params = out.params
           /\ [k \in 1..Len(out.value) |-> out.value[k].data]
                  = ItemsUpTo(pages, Len(pages))

\* C22 witness: after an invocation that had got past the first page was
\* given up, the new one has asked for the first two pages again and holds
\* the items of the first
C22_Witness ==
    /\ call.op = "list" /\ call.late /\ call.attempts >= 2
    /\ call.params # NoQuery
    /\ Len(call.reqs) >= 2
    /\ pages[1].count >= 1
    /\ Len(call.result) = pages[1].count + pages[2].count

\* C23, checked under SpecCall: every object a listing returns has the
\* retry configuration the listed resource had when list() was called,
\* None included.
C23_ChildrenSharePolicy ==
    (out.op = "list" /\ out.kind = "list") =>
        \A k \in 1..Len(out.value) : out.value[k].retry_params = out.policy

\* C24, checked under SpecFill: once a call of _get_data has succeeded the
\* instance reads as populated with existence True, whatever the keys of
\* the representation; a read calls _get_data at most once, and a read of
\* an unbound attribute after a successful fetch does not call it at all.
C24_FetchedKeysNeverReopen ==
    /\ "ok" \in seen => (Populated(fill) /\ Existence(fill) = PyTrue)
    /\ last.op = "read" => last.calls <= 1
    /\ (MissedRead /\ "ok" \in last.had) =>
           (last.calls = 0 /\ last.kind = "AttributeError")

(***************************************************************************)
(* Claims about exists() on a Fillable, checked under SpecProbe.           *)
(***************************************************************************)
\* C21: exists() leaves the instance as it was, whatever it returns or
\* raises, and calls _get_data for nothing; and after an exists() that
\* returned False, a read of an unbound attribute on an instance that is
\* not populated and whose existence is unknown still calls _get_data.
C21_ExistsLeavesFillState ==
    /\ last.op = "exists" => (last.same /\ last.calls = 0)
    /\ (MissedRead /\ "False" \in last.had /\ ~last.pop /\ last.ex = PyNone)
           => last.calls >= 1

\* C21 witness: exists() had returned False, and a later read of an unbound
\* attribute fetched the representation and returned its value
C21_Witness ==
    /\ MissedRead /\ "False" \in last.had
    /\ last.calls = 1 /\ last.kind = "value"
    /\ Existence(fill) = PyTrue

====
